---- MODULE Spec2Model ----
(***************************************************************************)
(* A model of io-uring-async (src/src/lib.rs): the slab of Lifecycle       *)
(* records shared by the engine (IoUringAsync) and the operation handles   *)
(* (Op / OpInner), the submission queue, kernel and completion queue of    *)
(* the ring, the reactor loop (listen) and the tasks of a single-threaded  *)
(* cooperative executor that push, poll, await and drop operations.        *)
(***************************************************************************)
EXTENDS Integers, Sequences, FiniteSets, TLC

\* Number of push calls made in a behaviour.
MaxOps == 2
\* Capacity of the submission queue (the `entries` argument of new()).
SqEntries == 1
\* Number of caller tasks on the executor.
NumTasks == 2
\* Extra completions (beyond one per entry) the kernel posts in a behaviour.
MaxDup == 1

VARIABLES
    slab,       \* Slab<Lifecycle>: sequence of entries, key k at position k+1
    slabNext,   \* the slab's next free key
    sq,         \* submission queue: sequence of entries
    kernel,     \* entries flushed to the kernel and not yet completed
    cq,         \* completion queue: sequence of completions
    posted,     \* per operation: completions the kernel has posted for it
    opSt,       \* per operation: "unborn", "pushing", "live", "detached", "gone"
    opIdx,      \* per operation: slab key assigned by push (-1 before)
    got,        \* per operation: payload of the last poll that returned Ready
    resolved,   \* per operation: number of awaits that resolved on its handle
    awaiting,   \* per task: the operation it is awaiting (0: none)
    sched,      \* per task: an awaiting task is scheduled to be polled
    detSched,   \* per operation: its detached waiter is scheduled to be polled
    woken,      \* waker invoked by the latest step of handle_cqe (0: none)
    anomaly,    \* the latest step of handle_cqe reported a multishot anomaly
    listenPc,   \* position of the listen loop: "wait", "drain", "clear"
    ready,      \* AsyncFd's cached readiness of the ring descriptor
    event,      \* a readiness event of the descriptor not yet seen by the driver
    pushing,    \* the operation whose push is in its retry loop (0: none)
    panicked,   \* "" or the panic that stopped the program
    submitRes,  \* the Result of the latest call of submit(): "ok" or "err"
    lastWaker   \* per slab key: the waker of the latest poll of the slot that
                \* returned Pending and is not yet answered (0: none)

vars == <<slab, slabNext, sq, kernel, cq, posted, opSt, opIdx, got, resolved,
          awaiting, sched, detSched, woken, anomaly, listenPc, ready, event,
          pushing, panicked, submitRes, lastWaker>>

Ops == 1..MaxOps
Tasks == 1..NumTasks

\* The waker of caller task t is t; the waker of the task spawned by the drop
\* of operation n is -n.
DetachedWaker(n) == 0 - n

------------------------------------------------------------------------------
\* Completion payloads and Lifecycle values

NoCqe == [user_data |-> -1, op |-> 0, res |-> 0]

\* The completion of entry e; res tells a first completion (0) from a later one.
Cqe(e, r) == [user_data |-> e.user_data, op |-> e.op, res |-> r]

Submitted == [state |-> "Submitted", waker |-> 0, cqe |-> NoCqe, next |-> 0]

Waiting(w) == [state |-> "Waiting", waker |-> w, cqe |-> NoCqe, next |-> 0]

Completed(c) == [state |-> "Completed", waker |-> 0, cqe |-> c, next |-> 0]

\* A vacant slab entry links to the next free key.
Vacant(nx) == [state |-> "Vacant", waker |-> 0, cqe |-> NoCqe, next |-> nx]

------------------------------------------------------------------------------
\* The slab

SlabContains(s, key) == key >= 0 /\ key < Len(s) /\ s[key + 1].state # "Vacant"

\* An insert that hands out key 0 whenever the slab has a slot, occupied or
\* not.
SlabInsertLowest(s, nx, lc) ==
    IF s = <<>>
    THEN [slab |-> <<lc>>, next |-> 1, key |-> 0]
    ELSE [slab |-> [s EXCEPT ![1] = lc], next |-> nx, key |-> 0]

\* Slab::insert: the value goes to the next free key; a key freed by remove is
\* reused before the slab grows.
SlabInsert(s, nx, lc) ==
    IF nx = Len(s)
    THEN [slab |-> Append(s, lc), next |-> nx + 1, key |-> nx]
    ELSE [slab |-> [s EXCEPT ![nx + 1] = lc], next |-> s[nx + 1].next, key |-> nx]

\* Slab::remove: the key becomes the head of the free list.
SlabRemove(s, nx, key) ==
    [slab |-> [s EXCEPT ![key + 1] = Vacant(nx)], next |-> key, val |-> s[key + 1]]

------------------------------------------------------------------------------
\* The operation handle

\* InnerPoll storing the waker whatever the state of the slot.
InnerPollAlwaysStore(s, index, w) ==
    IF ~SlabContains(s, index)
    THEN [slab |-> s, ready |-> FALSE, out |-> NoCqe, panic |-> TRUE]
    ELSE [slab |-> [s EXCEPT ![index + 1] = Waiting(w)],
          ready |-> s[index + 1].state = "Completed",
          out |-> s[index + 1].cqe, panic |-> FALSE]

\* InnerPoll moving the payload out of a Completed slot.
InnerPollTake(s, index, w) ==
    IF ~SlabContains(s, index)
    THEN [slab |-> s, ready |-> FALSE, out |-> NoCqe, panic |-> TRUE]
    ELSE IF s[index + 1].state = "Completed"
    THEN [slab |-> [s EXCEPT ![index + 1] = Completed(NoCqe)],
          ready |-> TRUE, out |-> s[index + 1].cqe, panic |-> FALSE]
    ELSE [slab |-> [s EXCEPT ![index + 1] = Waiting(w)],
          ready |-> FALSE, out |-> NoCqe, panic |-> FALSE]

\* InnerPoll with the Waiting arm keeping the waker it holds.
InnerPollKeepWaker(s, index, w) ==
    IF ~SlabContains(s, index)
    THEN [slab |-> s, ready |-> FALSE, out |-> NoCqe, panic |-> TRUE]
    ELSE IF s[index + 1].state = "Completed"
    THEN [slab |-> s, ready |-> TRUE, out |-> s[index + 1].cqe, panic |-> FALSE]
    ELSE IF s[index + 1].state = "Waiting"
    THEN [slab |-> s, ready |-> FALSE, out |-> NoCqe, panic |-> FALSE]
    ELSE [slab |-> [s EXCEPT ![index + 1] = Waiting(w)],
          ready |-> FALSE, out |-> NoCqe, panic |-> FALSE]

\* InnerPoll with the Waiting arm answering Ready.
InnerPollHasty(s, index, w) ==
    IF ~SlabContains(s, index)
    THEN [slab |-> s, ready |-> FALSE, out |-> NoCqe, panic |-> TRUE]
    ELSE IF s[index + 1].state \in {"Completed", "Waiting"}
    THEN [slab |-> s, ready |-> TRUE, out |-> s[index + 1].cqe, panic |-> FALSE]
    ELSE [slab |-> [s EXCEPT ![index + 1] = Waiting(w)],
          ready |-> FALSE, out |-> NoCqe, panic |-> FALSE]

\* OpInner::poll returning Pending from a Submitted slot without storing the
\* waker.
InnerPollNoStore(s, index, w) ==
    IF ~SlabContains(s, index)
    THEN [slab |-> s, ready |-> FALSE, out |-> NoCqe, panic |-> TRUE]
    ELSE IF s[index + 1].state = "Completed"
    THEN [slab |-> s, ready |-> TRUE, out |-> s[index + 1].cqe, panic |-> FALSE]
    ELSE IF s[index + 1].state = "Submitted"
    THEN [slab |-> s, ready |-> FALSE, out |-> NoCqe, panic |-> FALSE]
    ELSE [slab |-> [s EXCEPT ![index + 1] = Waiting(w)],
          ready |-> FALSE, out |-> NoCqe, panic |-> FALSE]

\* OpInner::poll with waker w on the slot at `index`: Submitted and Waiting
\* store the waker and return Pending, Completed returns a clone of the
\* payload and leaves the slot as it is.
InnerPoll(s, index, w) ==
    IF ~SlabContains(s, index)
    THEN [slab |-> s, ready |-> FALSE, out |-> NoCqe, panic |-> TRUE]
    ELSE IF s[index + 1].state = "Completed"
    THEN [slab |-> s, ready |-> TRUE, out |-> s[index + 1].cqe, panic |-> FALSE]
    ELSE [slab |-> [s EXCEPT ![index + 1] = Waiting(w)],
          ready |-> FALSE, out |-> NoCqe, panic |-> FALSE]

\* OpInner::drop: the slot is removed, and the removal of a slot that is not
\* Completed panics (after the removal).
InnerDrop(s, nx, index) ==
    LET r == SlabRemove(s, nx, index)
    IN  [slab |-> r.slab, next |-> r.next, panic |-> r.val.state # "Completed"]

\* Op::drop forgetting the inner handle of a slot that is not Completed: no
\* task is spawned and nothing holds the slot any more.
OpDropNoSpawn(n) ==
    IF slab[opIdx[n] + 1].state = "Completed"
    THEN /\ slab' = [slab EXCEPT ![opIdx[n] + 1] = Vacant(slabNext)]
         /\ slabNext' = opIdx[n]
         /\ opSt' = [opSt EXCEPT ![n] = "gone"]
         /\ detSched' = detSched
         /\ panicked' = panicked
    ELSE /\ opSt' = [opSt EXCEPT ![n] = "gone"]
         /\ UNCHANGED <<slab, slabNext, detSched, panicked>>

\* Op::drop without the hand-over: the inner handle is dropped at once.
OpDropEager(n) ==
    LET r == [slab |-> [slab EXCEPT ![opIdx[n] + 1] = Vacant(slabNext)],
              next |-> opIdx[n],
              panic |-> slab[opIdx[n] + 1].state # "Completed"]
    IN  /\ slab' = r.slab
        /\ slabNext' = r.next
        /\ opSt' = [opSt EXCEPT ![n] = "gone"]
        /\ detSched' = detSched
        /\ panicked' = IF r.panic THEN "op_drop" ELSE panicked

\* Op::drop handing every slot, Completed or not, to a spawned task.
OpDropAlwaysSpawn(n) ==
    /\ opSt' = [opSt EXCEPT ![n] = "detached"]
    /\ detSched' = [detSched EXCEPT ![n] = TRUE]
    /\ UNCHANGED <<slab, slabNext, panicked>>

\* Op::drop of the handle of operation n: a Completed slot is removed by the
\* drop of the inner handle; otherwise the inner handle moves to a task
\* spawned on the executor, which is scheduled for its first poll.
OpDrop(n) ==
    IF slab[opIdx[n] + 1].state = "Completed"
    THEN LET r == InnerDrop(slab, slabNext, opIdx[n])
         IN  /\ slab' = r.slab
             /\ slabNext' = r.next
             /\ opSt' = [opSt EXCEPT ![n] = "gone"]
             /\ detSched' = detSched
             /\ panicked' = IF r.panic THEN "op_drop" ELSE panicked
    ELSE /\ opSt' = [opSt EXCEPT ![n] = "detached"]
         /\ detSched' = [detSched EXCEPT ![n] = TRUE]
         /\ UNCHANGED <<slab, slabNext, panicked>>

------------------------------------------------------------------------------
\* The transport

\* SubmissionQueue::push: fails when the queue is full.
SqPush(q, e) ==
    IF Len(q) < SqEntries
    THEN [ok |-> TRUE, sq |-> Append(q, e)]
    ELSE [ok |-> FALSE, sq |-> q]

\* A successful io_uring submit: the kernel takes the first k entries of the
\* submission queue.
Flush(q, kern, k) ==
    [sq |-> SubSeq(q, k + 1, Len(q)), kernel |-> kern \cup {q[i] : i \in 1..k}]

\* How many entries a successful flush may take: at least one of a non-empty
\* queue.
FlushCounts(q) == IF q = <<>> THEN {0} ELSE 1..Len(q)

------------------------------------------------------------------------------
\* The state after construction (IoUringAsync::new, listen spawned)

Init ==
    /\ slab = <<>>
    /\ slabNext = 0
    /\ sq = <<>>
    /\ kernel = {}
    /\ cq = <<>>
    /\ posted = [n \in Ops |-> 0]
    /\ opSt = [n \in Ops |-> "unborn"]
    /\ opIdx = [n \in Ops |-> -1]
    /\ got = [n \in Ops |-> NoCqe]
    /\ resolved = [n \in Ops |-> 0]
    /\ awaiting = [t \in Tasks |-> 0]
    /\ sched = [t \in Tasks |-> FALSE]
    /\ detSched = [n \in Ops |-> FALSE]
    /\ woken = 0
    /\ anomaly = FALSE
    /\ listenPc = "wait"
    /\ ready = FALSE
    /\ event = FALSE
    /\ pushing = 0
    /\ panicked = ""
    /\ submitRes = "ok"
    /\ lastWaker = [k \in 0..(MaxOps - 1) |-> 0]

\* The executor can run a task: no panic, listen is suspended at
\* readable().await and no push is in its retry loop.
Idle == panicked = "" /\ listenPc = "wait" /\ pushing = 0

\* No task is awaiting operation n: its handle can be polled, moved or dropped.
Free(n) == opSt[n] = "live" /\ \A t \in Tasks : awaiting[t] # n

EntryOf(n) == [user_data |-> opIdx[n], op |-> n]

------------------------------------------------------------------------------
\* IoUringAsync::push

\* PushStart leaving the entry's user_data at its default, 0.
PushStartNoTag(n) ==
    /\ Idle
    /\ opSt[n] = "unborn"
    /\ \A m \in 1..(n - 1) : opSt[m] # "unborn"
    /\ LET r == SlabInsert(slab, slabNext, Submitted)
           p == SqPush(sq, [user_data |-> 0, op |-> n])
       IN  /\ slab' = r.slab
           /\ slabNext' = r.next
           /\ opIdx' = [opIdx EXCEPT ![n] = r.key]
           /\ sq' = p.sq
           /\ opSt' = [opSt EXCEPT ![n] = IF p.ok THEN "live" ELSE "pushing"]
           /\ pushing' = IF p.ok THEN 0 ELSE n
    /\ UNCHANGED <<kernel, cq, posted, got, resolved, awaiting, sched, detSched,
                   woken, anomaly, listenPc, ready, event, panicked, submitRes,
                   lastWaker>>

\* PushStart returning the Op although the queue refused the entry.
PushStartNoRetry(n) ==
    /\ Idle
    /\ opSt[n] = "unborn"
    /\ \A m \in 1..(n - 1) : opSt[m] # "unborn"
    /\ LET r == SlabInsert(slab, slabNext, Submitted)
           p == SqPush(sq, [user_data |-> r.key, op |-> n])
       IN  /\ slab' = r.slab
           /\ slabNext' = r.next
           /\ opIdx' = [opIdx EXCEPT ![n] = r.key]
           /\ sq' = p.sq
           /\ opSt' = [opSt EXCEPT ![n] = "live"]
           /\ pushing' = 0
    /\ UNCHANGED <<kernel, cq, posted, got, resolved, awaiting, sched, detSched,
                   woken, anomaly, listenPc, ready, event, panicked, submitRes,
                   lastWaker>>

\* push up to its first attempt to enqueue: the slot is inserted, the entry
\* is tagged with the slot's key, and the Op is returned if the queue took
\* the entry.
PushStart(n) ==
    /\ Idle
    /\ opSt[n] = "unborn"
    /\ \A m \in 1..(n - 1) : opSt[m] # "unborn"
    /\ LET r == SlabInsert(slab, slabNext, Submitted)
           p == SqPush(sq, [user_data |-> r.key, op |-> n])
       IN  /\ slab' = r.slab
           /\ slabNext' = r.next
           /\ opIdx' = [opIdx EXCEPT ![n] = r.key]
           /\ sq' = p.sq
           /\ opSt' = [opSt EXCEPT ![n] = IF p.ok THEN "live" ELSE "pushing"]
           /\ pushing' = IF p.ok THEN 0 ELSE n
    /\ UNCHANGED <<kernel, cq, posted, got, resolved, awaiting, sched, detSched,
                   woken, anomaly, listenPc, ready, event, panicked, submitRes,
                   lastWaker>>

\* push's loop, the body: the attempt to enqueue failed, and submit() is
\* called to flush the queue.
PushFlush ==
    /\ panicked = ""
    /\ pushing # 0
    /\ ~SqPush(sq, EntryOf(pushing)).ok
    /\ \E k \in FlushCounts(sq) :
         LET f == Flush(sq, kernel, k)
         IN  sq' = f.sq /\ kernel' = f.kernel
    /\ UNCHANGED <<slab, slabNext, cq, posted, opSt, opIdx, got, resolved,
                   awaiting, sched, detSched, woken, anomaly, listenPc, ready,
                   event, pushing, panicked, submitRes, lastWaker>>

\* push's loop, the condition after a flush: the next attempt to enqueue; it
\* succeeds, the loop ends and the Op is returned.
PushEnqueue ==
    /\ panicked = ""
    /\ pushing # 0
    /\ SqPush(sq, EntryOf(pushing)).ok
    /\ sq' = SqPush(sq, EntryOf(pushing)).sq
    /\ opSt' = [opSt EXCEPT ![pushing] = "live"]
    /\ pushing' = 0
    /\ UNCHANGED <<slab, slabNext, kernel, cq, posted, opIdx, got, resolved,
                   awaiting, sched, detSched, woken, anomaly, listenPc, ready,
                   event, panicked, submitRes, lastWaker>>

\* IoUringAsync::submit, called by a task or by the executor's park hook:
\* the flush succeeds and submit returns Ok.
Submit ==
    /\ Idle
    /\ \E k \in FlushCounts(sq) :
         LET f == Flush(sq, kernel, k)
         IN  sq' = f.sq /\ kernel' = f.kernel
    /\ submitRes' = "ok"
    /\ UNCHANGED <<slab, slabNext, cq, posted, opSt, opIdx, got, resolved,
                   awaiting, sched, detSched, woken, anomaly, listenPc, ready,
                   event, pushing, panicked, lastWaker>>

\* IoUringAsync::submit when io_uring's submit fails: the kernel takes no
\* entry and submit returns the Err to its caller.
SubmitFail ==
    /\ Idle
    /\ submitRes' = "err"
    /\ UNCHANGED <<slab, slabNext, sq, kernel, cq, posted, opSt, opIdx, got,
                   resolved, awaiting, sched, detSched, woken, anomaly,
                   listenPc, ready, event, pushing, panicked, lastWaker>>

\* push's loop, the body when io_uring's submit fails: the Err is unwrapped,
\* which panics; push returns nothing to its caller.
PushFlushFail ==
    /\ panicked = ""
    /\ pushing # 0
    /\ ~SqPush(sq, EntryOf(pushing)).ok
    /\ panicked' = "unwrap"
    /\ UNCHANGED <<slab, slabNext, sq, kernel, cq, posted, opSt, opIdx, got,
                   resolved, awaiting, sched, detSched, woken, anomaly,
                   listenPc, ready, event, pushing, submitRes, lastWaker>>

------------------------------------------------------------------------------
\* The kernel

\* The kernel completes entry e: its completion is posted and the ring
\* descriptor signals readiness.
KernelComplete(e) ==
    /\ panicked = ""
    /\ e \in kernel
    /\ kernel' = kernel \ {e}
    /\ cq' = Append(cq, Cqe(e, 0))
    /\ posted' = [posted EXCEPT ![e.op] = 1]
    /\ event' = TRUE
    /\ UNCHANGED <<slab, slabNext, sq, opSt, opIdx, got, resolved, awaiting,
                   sched, detSched, woken, anomaly, listenPc, ready, pushing,
                   panicked, submitRes, lastWaker>>

\* Completions posted beyond the first one of each entry.
RECURSIVE Extra(_)
Extra(n) == IF n = 0 THEN 0
            ELSE Extra(n - 1) + (IF posted[n] > 1 THEN posted[n] - 1 ELSE 0)

\* The kernel posts one more completion for an entry it has completed.
KernelDuplicate(n) ==
    /\ panicked = ""
    /\ posted[n] >= 1
    /\ Extra(MaxOps) < MaxDup
    /\ cq' = Append(cq, Cqe(EntryOf(n), posted[n]))
    /\ posted' = [posted EXCEPT ![n] = @ + 1]
    /\ event' = TRUE
    /\ UNCHANGED <<slab, slabNext, sq, kernel, opSt, opIdx, got, resolved,
                   awaiting, sched, detSched, woken, anomaly, listenPc, ready,
                   pushing, panicked, submitRes, lastWaker>>

------------------------------------------------------------------------------
\* IoUringAsync::handle_cqe and the listen loop

\* Waker::wake_by_ref: the woken task is scheduled on the executor; it is
\* not run inline.
SchedAfterWake(w) ==
    IF w \in Tasks /\ awaiting[w] # 0 THEN [sched EXCEPT ![w] = TRUE] ELSE sched

DetSchedAfterWake(w) ==
    IF w < 0 /\ opSt[0 - w] = "detached"
    THEN [detSched EXCEPT ![0 - w] = TRUE]
    ELSE detSched

\* HandleOne with the Completed arm storing the new completion and waking
\* nobody.
HandleOneOverwrite(s, c) ==
    LET i == c.user_data
    IN  IF ~SlabContains(s, i)
        THEN [slab |-> s, wake |-> 0, anomaly |-> FALSE, panic |-> TRUE]
        ELSE IF s[i + 1].state = "Waiting"
        THEN [slab |-> [s EXCEPT ![i + 1] = Completed(c)],
              wake |-> s[i + 1].waker, anomaly |-> FALSE, panic |-> FALSE]
        ELSE [slab |-> [s EXCEPT ![i + 1] = Completed(c)],
              wake |-> 0, anomaly |-> s[i + 1].state = "Completed",
              panic |-> FALSE]

\* HandleOne with the Waiting arm completing the slot without a wake.
HandleOneNoWake(s, c) ==
    LET i == c.user_data
    IN  IF ~SlabContains(s, i)
        THEN [slab |-> s, wake |-> 0, anomaly |-> FALSE, panic |-> TRUE]
        ELSE IF s[i + 1].state \in {"Submitted", "Waiting"}
        THEN [slab |-> [s EXCEPT ![i + 1] = Completed(c)],
              wake |-> 0, anomaly |-> FALSE, panic |-> FALSE]
        ELSE [slab |-> s, wake |-> 0, anomaly |-> TRUE, panic |-> FALSE]

\* The body of handle_cqe's loop for completion c: the slot is looked up by
\* the completion's user_data (indexing a vacant key panics); Submitted
\* becomes Completed, Waiting wakes its waker and becomes Completed, Completed
\* prints the anomaly and keeps the slot.
HandleOne(s, c) ==
    LET i == c.user_data
    IN  IF ~SlabContains(s, i)
        THEN [slab |-> s, wake |-> 0, anomaly |-> FALSE, panic |-> TRUE]
        ELSE IF s[i + 1].state = "Submitted"
        THEN [slab |-> [s EXCEPT ![i + 1] = Completed(c)],
              wake |-> 0, anomaly |-> FALSE, panic |-> FALSE]
        ELSE IF s[i + 1].state = "Waiting"
        THEN [slab |-> [s EXCEPT ![i + 1] = Completed(c)],
              wake |-> s[i + 1].waker, anomaly |-> FALSE, panic |-> FALSE]
        ELSE [slab |-> s, wake |-> 0, anomaly |-> TRUE, panic |-> FALSE]

\* The slot of completion c has its completion: no poll of it is left
\* unanswered.
Answered(lw, c) ==
    IF c.user_data \in DOMAIN lw THEN [lw EXCEPT ![c.user_data] = 0] ELSE lw

\* listen: readable().await returns once the descriptor is known to be ready.
ListenReadable ==
    /\ Idle
    /\ ready
    /\ listenPc' = "drain"
    /\ UNCHANGED <<slab, slabNext, sq, kernel, cq, posted, opSt, opIdx, got,
                   resolved, awaiting, sched, detSched, woken, anomaly, ready,
                   event, pushing, panicked, submitRes, lastWaker>>

\* handle_cqe with `if let` for `while let`: it returns after the first
\* completion.
HandleCqeStepOnce ==
    /\ panicked = ""
    /\ listenPc = "drain"
    /\ IF cq = <<>>
       THEN /\ listenPc' = "clear"
            /\ woken' = 0
            /\ anomaly' = FALSE
            /\ UNCHANGED <<slab, cq, sched, detSched, panicked, lastWaker>>
       ELSE LET r == HandleOne(slab, Head(cq))
            IN  /\ cq' = Tail(cq)
                /\ lastWaker' = Answered(lastWaker, Head(cq))
                /\ slab' = r.slab
                /\ woken' = r.wake
                /\ anomaly' = r.anomaly
                /\ sched' = SchedAfterWake(r.wake)
                /\ detSched' = DetSchedAfterWake(r.wake)
                /\ panicked' = IF r.panic THEN "slab_index" ELSE panicked
                /\ listenPc' = "clear"
    /\ UNCHANGED <<slabNext, sq, kernel, posted, opSt, opIdx, got, resolved,
                   awaiting, ready, event, pushing, submitRes>>

\* One turn of handle_cqe's loop: the next completion is popped and applied;
\* with no completion left handle_cqe returns.
HandleCqeStep ==
    /\ panicked = ""
    /\ listenPc = "drain"
    /\ IF cq = <<>>
       THEN /\ listenPc' = "clear"
            /\ woken' = 0
            /\ anomaly' = FALSE
            /\ UNCHANGED <<slab, cq, sched, detSched, panicked, lastWaker>>
       ELSE LET r == HandleOne(slab, Head(cq))
            IN  /\ cq' = Tail(cq)
                /\ lastWaker' = Answered(lastWaker, Head(cq))
                /\ slab' = r.slab
                /\ woken' = r.wake
                /\ anomaly' = r.anomaly
                /\ sched' = SchedAfterWake(r.wake)
                /\ detSched' = DetSchedAfterWake(r.wake)
                /\ panicked' = IF r.panic THEN "slab_index" ELSE panicked
                /\ listenPc' = listenPc
    /\ UNCHANGED <<slabNext, sq, kernel, posted, opSt, opIdx, got, resolved,
                   awaiting, ready, event, pushing, submitRes>>

\* clear_ready discarding also the readiness event the driver has not seen
\* yet.
ClearReadyAll ==
    /\ panicked = ""
    /\ listenPc = "clear"
    /\ ready' = FALSE
    /\ event' = FALSE
    /\ listenPc' = "wait"
    /\ UNCHANGED <<slab, slabNext, sq, kernel, cq, posted, opSt, opIdx, got,
                   resolved, awaiting, sched, detSched, woken, anomaly,
                   pushing, panicked, submitRes, lastWaker>>

\* listen: guard.clear_ready(), and back to readable().await.
ClearReady ==
    /\ panicked = ""
    /\ listenPc = "clear"
    /\ ready' = FALSE
    /\ listenPc' = "wait"
    /\ UNCHANGED <<slab, slabNext, sq, kernel, cq, posted, opSt, opIdx, got,
                   resolved, awaiting, sched, detSched, woken, anomaly, event,
                   pushing, panicked, submitRes, lastWaker>>

\* The executor's I/O driver, which runs between task polls, sees the
\* descriptor's readiness event.
DriverTurn ==
    /\ Idle
    /\ event
    /\ ready' = TRUE
    /\ event' = FALSE
    /\ UNCHANGED <<slab, slabNext, sq, kernel, cq, posted, opSt, opIdx, got,
                   resolved, awaiting, sched, detSched, woken, anomaly, listenPc,
                   pushing, panicked, submitRes, lastWaker>>

------------------------------------------------------------------------------
\* The tasks

\* The waker a poll of slot index leaves to be invoked: none after Ready,
\* the poller's after Pending.
AfterPoll(lw, index, w, r) == [lw EXCEPT ![index] = IF r.ready THEN 0 ELSE w]

\* Task t polls the handle of operation n once (Op::poll) and goes on.
PollOnce(t, n) ==
    /\ Idle
    /\ awaiting[t] = 0
    /\ Free(n)
    /\ LET r == InnerPoll(slab, opIdx[n], t)
       IN  /\ slab' = r.slab
           /\ got' = IF r.ready THEN [got EXCEPT ![n] = r.out] ELSE got
           /\ lastWaker' = AfterPoll(lastWaker, opIdx[n], t, r)
    /\ UNCHANGED <<slabNext, sq, kernel, cq, posted, opSt, opIdx, resolved,
                   awaiting, sched, detSched, woken, anomaly, listenPc, ready,
                   event, pushing, panicked, submitRes>>

\* The outcome of a poll made by `op.await` in task t: Ready resolves the
\* await and drops the handle, Pending parks the task.
AwaitOutcome(t, n, r) ==
    IF r.ready
    THEN /\ got' = [got EXCEPT ![n] = r.out]
         /\ resolved' = [resolved EXCEPT ![n] = @ + 1]
         /\ awaiting' = [awaiting EXCEPT ![t] = 0]
         /\ lastWaker' = AfterPoll(lastWaker, opIdx[n], t, r)
         /\ OpDrop(n)
    ELSE /\ slab' = r.slab
         /\ awaiting' = [awaiting EXCEPT ![t] = n]
         /\ lastWaker' = AfterPoll(lastWaker, opIdx[n], t, r)
         /\ UNCHANGED <<slabNext, opSt, got, resolved, detSched, panicked>>

\* Task t starts `op.await` on operation n: the first poll.
AwaitStart(t, n) ==
    /\ Idle
    /\ awaiting[t] = 0
    /\ Free(n)
    /\ AwaitOutcome(t, n, InnerPoll(slab, opIdx[n], t))
    /\ sched' = [sched EXCEPT ![t] = FALSE]
    /\ UNCHANGED <<sq, kernel, cq, posted, opIdx, woken, anomaly, listenPc,
                   ready, event, pushing, submitRes>>

\* The executor polls task t, woken while parked in `op.await`.
AwaitPoll(t) ==
    /\ Idle
    /\ awaiting[t] # 0
    /\ sched[t]
    /\ AwaitOutcome(t, awaiting[t], InnerPoll(slab, opIdx[awaiting[t]], t))
    /\ sched' = [sched EXCEPT ![t] = FALSE]
    /\ UNCHANGED <<sq, kernel, cq, posted, opIdx, woken, anomaly, listenPc,
                   ready, event, pushing, submitRes>>

\* Task t gives up its await (a select! or timeout around it): the handle it
\* awaited is dropped.
AwaitCancel(t) ==
    /\ Idle
    /\ awaiting[t] # 0
    /\ OpDrop(awaiting[t])
    /\ awaiting' = [awaiting EXCEPT ![t] = 0]
    /\ sched' = [sched EXCEPT ![t] = FALSE]
    /\ UNCHANGED <<sq, kernel, cq, posted, opIdx, got, resolved, woken, anomaly,
                   listenPc, ready, event, pushing, submitRes, lastWaker>>

\* A task drops the handle of operation n.
DropOp(n) ==
    /\ Idle
    /\ Free(n)
    /\ OpDrop(n)
    /\ UNCHANGED <<sq, kernel, cq, posted, opIdx, got, resolved, awaiting, sched,
                   woken, anomaly, listenPc, ready, event, pushing, submitRes,
                   lastWaker>>

\* The executor polls the task spawned by the drop of operation n
\* (async { inner.await }): Pending parks it, Ready ends it and drops the
\* inner handle.
DetachedPoll(n) ==
    /\ Idle
    /\ opSt[n] = "detached"
    /\ detSched[n]
    /\ LET r == InnerPoll(slab, opIdx[n], DetachedWaker(n))
       IN  IF r.ready
           THEN LET d == InnerDrop(slab, slabNext, opIdx[n])
                IN  /\ slab' = d.slab
                    /\ slabNext' = d.next
                    /\ opSt' = [opSt EXCEPT ![n] = "gone"]
                    /\ panicked' = IF d.panic THEN "op_drop" ELSE panicked
           ELSE /\ slab' = r.slab
                /\ UNCHANGED <<slabNext, opSt, panicked>>
    /\ lastWaker' = AfterPoll(lastWaker, opIdx[n], DetachedWaker(n),
                              InnerPoll(slab, opIdx[n], DetachedWaker(n)))
    /\ detSched' = [detSched EXCEPT ![n] = FALSE]
    /\ UNCHANGED <<sq, kernel, cq, posted, opIdx, got, resolved, awaiting, sched,
                   woken, anomaly, listenPc, ready, event, pushing, submitRes>>

\* The executor destroys the task spawned by the drop of operation n before
\* it has finished (the LocalSet or the runtime is shut down): the inner
\* handle is dropped. OpInner::drop removes the slot and then, unless the
\* slot was Completed, panics. The panic unwinds out of the destructor: it
\* ends the program, or it is caught by the code that destroyed the task
\* (the borrow of the slab is released by the unwinding) and the program
\* runs on.
WaiterDestroyed(n) ==
    /\ Idle
    /\ opSt[n] = "detached"
    /\ LET d == InnerDrop(slab, slabNext, opIdx[n])
       IN  /\ slab' = d.slab
           /\ slabNext' = d.next
           /\ panicked' \in (IF d.panic THEN {"op_drop", ""} ELSE {""})
    /\ opSt' = [opSt EXCEPT ![n] = "gone"]
    /\ detSched' = [detSched EXCEPT ![n] = FALSE]
    /\ lastWaker' = [lastWaker EXCEPT ![opIdx[n]] = 0]
    /\ UNCHANGED <<sq, kernel, cq, posted, opIdx, got, resolved, awaiting, sched,
                   woken, anomaly, listenPc, ready, event, pushing, submitRes>>

------------------------------------------------------------------------------
\* Specifications

Entries == {[user_data |-> i, op |-> n] : i \in 0..(MaxOps - 1), n \in Ops}

\* Every submitted entry yields exactly one completion.
Next ==
    \/ \E n \in Ops : PushStart(n)
    \/ PushFlush
    \/ PushEnqueue
    \/ Submit
    \/ \E e \in Entries : KernelComplete(e)
    \/ ListenReadable
    \/ HandleCqeStep
    \/ ClearReady
    \/ DriverTurn
    \/ \E t \in Tasks, n \in Ops : PollOnce(t, n)
    \/ \E t \in Tasks, n \in Ops : AwaitStart(t, n)
    \/ \E t \in Tasks : AwaitPoll(t)
    \/ \E t \in Tasks : AwaitCancel(t)
    \/ \E n \in Ops : DropOp(n)
    \/ \E n \in Ops : DetachedPoll(n)

Spec == Init /\ [][Next]_vars

\* The kernel may post more than one completion for an entry.
NextDup == Next \/ \E n \in Ops : KernelDuplicate(n)

SpecDup == Init /\ [][NextDup]_vars

\* io_uring's submit may fail.
NextFail == Next \/ SubmitFail \/ PushFlushFail

SpecFail == Init /\ [][NextFail]_vars

\* The executor may destroy a detached waiter.
NextDestroy == Next \/ \E n \in Ops : WaiterDestroyed(n)

SpecDestroy == Init /\ [][NextDestroy]_vars

\* The reactor loop runs, submit() is called as long as entries are queued
\* (explicitly or by the executor's park hook), the kernel completes every
\* entry flushed to it, and the executor polls every scheduled task.
Fairness ==
    /\ WF_vars(PushFlush)
    /\ WF_vars(PushEnqueue)
    /\ WF_vars(Submit)
    /\ \A e \in Entries : WF_vars(KernelComplete(e))
    /\ WF_vars(ListenReadable)
    /\ WF_vars(HandleCqeStep)
    /\ WF_vars(ClearReady)
    /\ WF_vars(DriverTurn)
    /\ \A t \in Tasks : WF_vars(AwaitPoll(t))
    /\ \A n \in Ops : WF_vars(DetachedPoll(n))

SpecLive == Init /\ [][Next]_vars /\ Fairness

------------------------------------------------------------------------------
\* Properties

\* The slot of operation n.
Slot(n) == slab[opIdx[n] + 1]

\* The states of an operation that holds its slot: an Op under construction
\* in push, a live Op, or the detached waiter that took over an Op's slot.
Held == {"pushing", "live", "detached"}

Holders(st, idx, i) == {n \in Ops : st[n] \in Held /\ idx[n] = i}

Keys(s) == 0..(Len(s) - 1)

\* C1: an Op dropped while its slot is Submitted or Waiting leaves the slab
\* as it is and hands the slot to a detached waiter; as long as the waiter
\* holds it the slot is present and no other operation has its key; the
\* waiter gives it up only once handle_cqe has stored the completion that
\* carries the slot's tag.
C1_DropKeepsSlot ==
    [][\A n \in Ops :
        /\ (opSt[n] = "live" /\ opSt'[n] # "live"
                /\ Slot(n).state \in {"Submitted", "Waiting"})
              => (opSt'[n] = "detached" /\ Slot(n)' = Slot(n)
                    /\ slab' = slab /\ slabNext' = slabNext)
        /\ opSt'[n] = "detached"
              => (SlabContains(slab', opIdx'[n])
                    /\ Holders(opSt', opIdx', opIdx'[n]) = {n})
        /\ (opSt[n] = "detached" /\ opSt'[n] # "detached")
              => (Slot(n).state = "Completed"
                    /\ Slot(n).cqe.user_data = opIdx[n])
      ]_vars

\* C1 witness: a handle was dropped while its slot was Waiting on a caller
\* task; the slot is still there, with that waker, beside the slot of an
\* operation pushed later.
C1_Witness ==
    \E n, k \in Ops :
        /\ opSt[n] = "detached" /\ Slot(n).state = "Waiting" /\ Slot(n).waker > 0
        /\ n < k /\ opSt[k] = "live" /\ SlabContains(slab, opIdx[k])

\* C2: with one completion per entry, a slot leaves the slab only while it is
\* Completed, and OpInner's drop never panics.
C2_RemoveOnlyCompleted ==
    [][/\ panicked' # "op_drop"
       /\ \A i \in Keys(slab) :
            (SlabContains(slab, i) /\ ~SlabContains(slab', i))
                => slab[i + 1].state = "Completed"
      ]_vars

\* C2 witness: one slot was removed by the drop of a resolved Op and another
\* by a detached waiter or a drop after completion, without a panic.
C2_Witness ==
    /\ panicked = ""
    /\ \E n, m \in Ops :
        /\ opSt[n] = "gone" /\ resolved[n] = 1
        /\ opSt[m] = "gone" /\ resolved[m] = 0 /\ got[m] = NoCqe

\* An await on operation n was given up: its handle was dropped unresolved.
GivenUp(n) == opSt[n] \in {"detached", "gone"} /\ resolved[n] = 0

\* C3: under the fairness of SpecLive every await of an Op ends with the Op
\* resolved, unless the task gives the await up, and no Op resolves twice.
C3_AwaitResolves ==
    /\ \A n \in Ops :
          (\E t \in Tasks : awaiting[t] = n) ~> (resolved[n] = 1 \/ GivenUp(n))
    /\ [](\A n \in Ops : resolved[n] <= 1)

\* C3 witness: operation 2 has resolved while the await of operation 1,
\* pushed before it, is still parked.
C3_Witness ==
    \E t \in Tasks :
        /\ awaiting[t] = 1 /\ ~sched[t] /\ Slot(1).state = "Waiting"
        /\ resolved[2] = 1 /\ got[2].op = 2

\* C4: under the fairness of SpecLive a slot handed to a detached waiter is
\* eventually removed by it, while Completed; the entry is not withdrawn from
\* the ring, and the dropped handle yields no result.
C4_DetachedCompletes ==
    /\ \A n \in Ops : (opSt[n] = "detached") ~> (opSt[n] = "gone")
    /\ [][\A n \in Ops :
            /\ opSt[n] = "detached" =>
                 (got'[n] = got[n] /\ resolved'[n] = resolved[n])
            /\ (opSt[n] = "detached" /\ opSt'[n] # "detached") =>
                 (opSt'[n] = "gone" /\ Slot(n).state = "Completed"
                    /\ Slot(n).cqe.op = n /\ ~SlabContains(slab', opIdx[n]))
            /\ (opSt[n] = "detached" /\ opSt'[n] = "detached" /\ posted'[n] = 0) =>
                 (\E i \in 1..Len(sq') : sq'[i] = EntryOf(n)) \/ EntryOf(n) \in kernel'
         ]_vars

\* C4 witness: the completion of a dropped operation was drained before its
\* detached waiter was polled for the first time, waking the waker of the
\* task that had polled the handle.
C4_Witness ==
    \E n \in Ops :
        /\ opSt[n] = "detached" /\ detSched[n]
        /\ Slot(n).state = "Completed" /\ woken > 0

\* C5: whatever a poll of the handle of operation n returned is the
\* completion of n's own entry, and its tag is the key push assigned to n.
C5_TagMatches ==
    \A n \in Ops :
        got[n] # NoCqe => (got[n].user_data = opIdx[n] /\ got[n].op = n)

\* C5 witness: operations 1 and 2 were pushed in this order; 2 has resolved
\* while the completion of 1 is still in the completion queue, and 1
\* resolves with its own completion in another behaviour.
C5_Witness ==
    /\ got[2] # NoCqe /\ got[2].user_data = opIdx[2]
    /\ opSt[1] = "live" /\ Slot(1).state # "Completed"
    /\ \E i \in 1..Len(cq) : cq[i].op = 1

\* The steps a slab entry may take: the Lifecycle steps within one occupancy,
\* the removal of the entry, and the insertion that starts an occupancy.
LifecycleSteps ==
    {<<"Submitted", "Waiting">>, <<"Waiting", "Waiting">>,
     <<"Submitted", "Completed">>, <<"Waiting", "Completed">>,
     <<"Submitted", "Vacant">>, <<"Waiting", "Vacant">>,
     <<"Completed", "Vacant">>, <<"Vacant", "Submitted">>, <<"Vacant", "Vacant">>}

\* C6: an occupied slab entry changes only by Submitted->Waiting,
\* Waiting->Waiting, Submitted->Completed or Waiting->Completed until it is
\* removed; a Completed entry never changes, and an entry becomes occupied
\* only as Submitted.
C6_LifecycleSteps ==
    [][/\ \A i \in Keys(slab) :
            slab'[i + 1] # slab[i + 1]
                => <<slab[i + 1].state, slab'[i + 1].state>> \in LifecycleSteps
       /\ \A i \in Keys(slab') \ Keys(slab) : slab'[i + 1] = Submitted
       /\ Len(slab') >= Len(slab)
      ]_vars

\* C6 witness: a reused key is in its second occupancy and Completed, made so
\* by a step of handle_cqe that found it Waiting.
C6_Witness ==
    \E n, m \in Ops :
        /\ m < n /\ opIdx[n] = opIdx[m] /\ opSt[m] = "gone" /\ opSt[n] = "live"
        /\ Slot(n).state = "Completed" /\ woken # 0 /\ cq = <<>>

\* C7: every occupied slot has exactly one holder, every holder's slot is
\* occupied, and push takes a key that was not occupied.
C7_OneHolder ==
    [][/\ \A i \in Keys(slab') :
            SlabContains(slab', i) => Cardinality(Holders(opSt', opIdx', i)) = 1
       /\ \A n \in Ops : opSt'[n] \in Held => SlabContains(slab', opIdx'[n])
       /\ \A n \in Ops :
            (opSt[n] = "unborn" /\ opSt'[n] # "unborn")
                => ~SlabContains(slab, opIdx'[n])
      ]_vars

\* C7 witness: a detached waiter holds a slot under a key that an earlier
\* operation has given back.
C7_Witness ==
    \E n, k \in Ops :
        /\ opSt[n] = "detached" /\ opSt[k] = "gone" /\ k < n
        /\ opIdx[n] = opIdx[k] /\ SlabContains(slab, opIdx[n])

\* How often the entry of operation n is found in the ring: in the
\* submission queue, in the kernel, or completed.
Accounted(q, kern, done, n) ==
    Cardinality({i \in 1..Len(q) : q[i].op = n})
        + Cardinality({e \in kern : e.op = n})
        + done[n]

\* C8: a push that finds the queue full flushes it and enqueues its entry on
\* the next attempt, which ends the push; the entry of every operation whose
\* push has returned is in the ring exactly once, and the forced flush moves
\* queued entries to the kernel without losing one.
C8_PushEnqueuesOnce ==
    /\ (pushing # 0) ~> (pushing = 0)
    /\ [][/\ \A n \in Ops :
                Accounted(sq', kernel', posted', n)
                    = (IF opSt'[n] \in {"live", "detached", "gone"} THEN 1 ELSE 0)
          /\ (pushing # 0 /\ pushing' # 0 /\ sq' # sq)
                => (Len(sq') < SqEntries /\ pushing' = pushing)
          /\ (pushing # 0 /\ Len(sq) < SqEntries /\ sq' # sq)
                => (pushing' = 0 /\ sq' = Append(sq, EntryOf(pushing))
                        /\ opSt'[pushing] = "live")
         ]_vars

\* C8 witness: a push found the queue full and its forced flush has freed
\* capacity; its entry is not enqueued yet.
C8_Witness ==
    /\ pushing # 0 /\ opSt[pushing] = "pushing"
    /\ Len(sq) < SqEntries /\ kernel # {}

\* C9: a poll of a live handle whose slot is Completed returns Ready with the
\* slot's payload and leaves the slab as it is, so does the poll after it;
\* the payload a poll has returned is the one the slot still holds, and the
\* slot of a live handle is present.
C9_PollCompletedIdempotent ==
    \A n \in Ops :
        opSt[n] = "live" =>
            /\ SlabContains(slab, opIdx[n])
            /\ got[n] # NoCqe =>
                  (Slot(n).state = "Completed" /\ Slot(n).cqe = got[n])
            /\ Slot(n).state = "Completed" =>
                  \A t \in Tasks :
                      LET r == InnerPoll(slab, opIdx[n], t)
                      IN  /\ r.ready /\ r.out = Slot(n).cqe /\ r.slab = slab
                          /\ InnerPoll(r.slab, opIdx[n], t) = r

\* C9 witness: a handle was polled after completion, got the payload, and
\* its slot is still present and Completed.
C9_Witness ==
    \E n \in Ops :
        /\ opSt[n] = "live" /\ got[n] # NoCqe /\ got[n].op = n
        /\ SlabContains(slab, opIdx[n]) /\ Slot(n).state = "Completed"

\* C10: a step of handle_cqe that pops a completion whose slot is already
\* Completed reports the anomaly and changes nothing else: the slab keeps the
\* first payload, no waker is invoked, no task is scheduled, there is no
\* panic, and handle_cqe stays in its loop.
C10_DuplicateDiscarded ==
    [][(/\ listenPc = "drain" /\ cq # <<>> /\ cq' = Tail(cq)
        /\ SlabContains(slab, Head(cq).user_data)
        /\ slab[Head(cq).user_data + 1].state = "Completed")
          => (/\ slab' = slab /\ anomaly' /\ woken' = 0
              /\ sched' = sched /\ detSched' = detSched /\ got' = got
              /\ panicked' = "" /\ listenPc' = "drain")
      ]_vars

\* C10 witness: handle_cqe has just reported the second completion of an
\* operation whose handle had already got the first one, and has more
\* completions to go through.
C10_Witness ==
    /\ anomaly /\ listenPc = "drain" /\ cq # <<>> /\ panicked = ""
    /\ \E n \in Ops :
        /\ posted[n] = 2 /\ opSt[n] = "live" /\ got[n] = Cqe(EntryOf(n), 0)
        /\ Slot(n).cqe = got[n]
        /\ \A i \in 1..Len(cq) : cq[i].op # n


\* C11: a step of handle_cqe that pops a duplicate completion (one posted for
\* an entry that already had a completion) reports the anomaly and discards
\* it whatever has become of the slot meanwhile: the slab is unchanged, no
\* waker is invoked, no task is scheduled and handle_cqe does not panic.
C11_DuplicateHarmless ==
    [][(/\ listenPc = "drain" /\ cq # <<>> /\ cq' = Tail(cq)
        /\ Head(cq).res >= 1)
          => (/\ slab' = slab /\ anomaly' /\ woken' = 0
              /\ sched' = sched /\ detSched' = detSched
              /\ panicked' = "")
      ]_vars


\* C12: a failure of io_uring's submit reaches the caller as an error value:
\* submit() returns Err, and a failure in push's retry loop ends push (the
\* loop is left) with no panic, the error handed to push's caller.
C12_FlushFailurePropagated ==
    [][/\ SubmitFail => (submitRes' = "err" /\ panicked' = "")
       /\ PushFlushFail => (panicked' = "" /\ pushing' = 0)
      ]_vars


\* The entry of operation n is still with the kernel: queued for it, taken
\* by it, or completed with the completion not yet popped by handle_cqe.
Outstanding(n) ==
    \/ \E i \in 1..Len(sq) : sq[i] = EntryOf(n)
    \/ EntryOf(n) \in kernel
    \/ \E i \in 1..Len(cq) : cq[i].op = n /\ cq[i].res = 0

\* The last owner of operation n's slot is gone, the slot with it, and the
\* entry is still with the kernel.
Orphaned(n) == opSt[n] = "gone" /\ Outstanding(n)

\* C13: once a detached waiter has been destroyed with its slot Submitted or
\* Waiting, the program is stopped: from a state where an operation's slot
\* is removed and its entry is still with the kernel, no step of push, poll,
\* drop or handle_cqe is taken.
C13_FatalStop ==
    [][(\E n \in Ops : Orphaned(n))
          => UNCHANGED <<slab, slabNext, sq, opSt, opIdx, got, resolved,
                         awaiting, listenPc, pushing>>
      ]_vars


\* handle_cqe pops a completion whose slot is present.
Pops == /\ listenPc = "drain" /\ cq # <<>> /\ cq' = Tail(cq)
        /\ SlabContains(slab, Head(cq).user_data)

\* C14: a step of handle_cqe on a Waiting slot invokes the waker given to
\* the latest poll of that slot and schedules no task but that waker's;
\* on a Submitted slot it invokes no waker and schedules nothing. Either way
\* the slot becomes Completed with the popped completion, every other slot
\* is untouched, and a Completed slot stays as it is for the rest of that
\* call of handle_cqe.
C14_WakesLatestWaker ==
    [][/\ Pops =>
            LET c == Head(cq)
                k == c.user_data
            IN  /\ slab[k + 1].state = "Waiting" =>
                      /\ woken' # 0 /\ woken' = lastWaker[k]
                      /\ \A t \in Tasks :
                            (sched'[t] /\ ~sched[t]) => t = woken'
                      /\ \A n \in Ops :
                            (detSched'[n] /\ ~detSched[n])
                                => DetachedWaker(n) = woken'
                /\ slab[k + 1].state = "Submitted" =>
                      woken' = 0 /\ sched' = sched /\ detSched' = detSched
                /\ slab[k + 1].state \in {"Waiting", "Submitted"} =>
                      slab' = [slab EXCEPT ![k + 1] = Completed(c)]
       /\ listenPc = "drain" =>
            \A i \in 1..Len(slab) :
                slab[i].state = "Completed" => slab'[i] = slab[i]
      ]_vars

\* C14 witness: handle_cqe has just completed the slot of an operation whose
\* handle a task polled and then dropped, so that the waker invoked was the
\* detached waiter's, stored over the task's; the waiter is scheduled and no
\* task is.
C14_Witness ==
    /\ listenPc = "drain" /\ woken < 0 /\ panicked = ""
    /\ \E n \in Ops :
        /\ woken = DetachedWaker(n) /\ opSt[n] = "detached" /\ detSched[n]
        /\ Slot(n) = Completed(Cqe(EntryOf(n), 0))
        /\ lastWaker[opIdx[n]] = 0
    /\ \A t \in Tasks : ~sched[t]


\* C15: with one completion per entry, whenever handle_cqe pops a completion
\* the slot of its tag is occupied and not yet Completed, the operation of
\* the entry it answers still holds that slot under that key and no other
\* operation does, and the lookup does not panic.
C15_PoppedTagResolves ==
    [][(listenPc = "drain" /\ cq # <<>> /\ cq' = Tail(cq))
          => LET c == Head(cq)
             IN  /\ SlabContains(slab, c.user_data)
                 /\ slab[c.user_data + 1].state \in {"Submitted", "Waiting"}
                 /\ Holders(opSt, opIdx, c.user_data) = {c.op}
                 /\ slab'[c.user_data + 1] = Completed(c)
                 /\ panicked' = ""
      ]_vars

\* C15 witness: handle_cqe has just stored the completion of the second
\* operation in the slot whose key the first operation had before it was
\* resolved and dropped.
C15_Witness ==
    /\ listenPc = "drain" /\ panicked = ""
    /\ opSt[1] = "gone" /\ got[1] = Cqe([user_data |-> 0, op |-> 1], 0)
    /\ opSt[2] \in {"live", "detached"} /\ opIdx[2] = 0 /\ opIdx[1] = 0
    /\ slab[1] = Completed(Cqe([user_data |-> 0, op |-> 2], 0))
    /\ got[2] = NoCqe


\* C16: a step that drops the Op of operation n while its slot is Completed
\* removes the slot in that step and spawns nothing: the operation is gone,
\* not detached, no waiter is scheduled, there is no panic, the other slots
\* are untouched, the key is vacant, and it is the key the next insert
\* returns.
C16_DropCompletedRemoves ==
    [][\A n \in Ops :
          (/\ opSt[n] = "live" /\ opSt'[n] # "live"
           /\ Slot(n).state = "Completed")
             => /\ opSt'[n] = "gone"
                /\ detSched' = detSched
                /\ panicked' = ""
                /\ ~SlabContains(slab', opIdx[n])
                /\ \A i \in 1..Len(slab) :
                      i # opIdx[n] + 1 => slab'[i] = slab[i]
                /\ Len(slab') = Len(slab)
                /\ SlabInsert(slab', slabNext', Submitted).key = opIdx[n]
      ]_vars

\* C16 witness: an operation was polled to Ready without being awaited, its
\* Op was dropped, and its key is vacant and next to be handed out while the
\* other operation still holds its own slot.
C16_Witness ==
    /\ panicked = ""
    /\ \E n \in Ops :
        /\ opSt[n] = "gone" /\ resolved[n] = 0
        /\ got[n] = Cqe(EntryOf(n), 0)
        /\ ~SlabContains(slab, opIdx[n]) /\ slabNext = opIdx[n]
        /\ \E m \in Ops : opSt[m] = "live" /\ opIdx[m] # opIdx[n]


Parked(t, n) == awaiting[t] = n /\ ~sched[t]

\* C18: no wakeup is lost. A task parked on an operation with no wake
\* pending has its own waker stored in the operation's slot, which is
\* Waiting, so the slot is not Completed; likewise the detached waiter of a
\* dropped operation. An await resolves only from a Completed slot, with
\* that slot's payload, and a task that starts an await parks only if the
\* slot is not Completed; a task woken for a Completed slot finds it
\* unchanged until its poll.
C18_NoLostWakeup ==
    /\ [](\A n \in Ops :
            /\ \A t \in Tasks : Parked(t, n) => Slot(n) = Waiting(t)
            /\ (opSt[n] = "detached" /\ ~detSched[n])
                  => Slot(n) = Waiting(DetachedWaker(n)))
    /\ [][\A n \in Ops :
            /\ resolved'[n] # resolved[n] =>
                  /\ Slot(n).state = "Completed"
                  /\ got'[n] = Slot(n).cqe
            /\ \A t \in Tasks :
                  /\ (awaiting[t] = 0 /\ awaiting'[t] = n)
                        => Slot(n).state # "Completed"
                  /\ (awaiting[t] = n /\ awaiting'[t] = n
                      /\ Slot(n).state = "Completed")
                        => (slab'[opIdx[n] + 1] = Slot(n) /\ sched'[t])
         ]_vars

\* C18 witness: a task that parked on an operation has been woken by
\* handle_cqe, which has returned: the slot is Completed and the task is
\* scheduled and not yet polled, while the other task is parked on the other
\* operation, whose slot is Waiting with that task's waker.
C18_Witness ==
    /\ listenPc = "wait" /\ panicked = ""
    /\ \E t, u \in Tasks : \E n, m \in Ops :
        /\ t # u /\ n # m
        /\ awaiting[t] = n /\ sched[t] /\ Slot(n).state = "Completed"
        /\ Parked(u, m) /\ Slot(m) = Waiting(u)


\* A completion of operation n is in the completion queue.
Queued(n) == \E i \in 1..Len(cq) : cq[i].op = n

\* C19: while the listen loop runs, every completion in the completion queue
\* is popped by handle_cqe, also one posted after handle_cqe found the queue
\* empty and before clear_ready.
C19_CompletionDrained == \A n \in Ops : Queued(n) ~> ~Queued(n)

\* C19 witness: handle_cqe has returned from an empty queue, the kernel has
\* posted a completion since, and clear_ready is still to come; the
\* descriptor's cached readiness is about to be cleared while the new
\* readiness event waits for the driver.
C19_Witness ==
    /\ listenPc = "clear" /\ cq # <<>> /\ ready /\ event /\ panicked = ""
    /\ \E n \in Ops : Queued(n) /\ Slot(n).state = "Waiting"

====
